---- MODULE Spec2Model ----
(***************************************************************************)
(* doc-manager: credential lifecycle and authorization enforcement.        *)
(*                                                                         *)
(* Five state machines share this module:                                  *)
(*   SpecGate      the permission check of the sidebar / PermissionsGuard  *)
(*                 and the ownership-scoped delete of DocumentsController; *)
(*   Spec          the token service (login, refresh, logout,              *)
(*                 authenticated requests) with a clock, over the tables   *)
(*                 as seeded;                                              *)
(*   SpecRbac      the token service while privileged mutations change     *)
(*                 the users, roles and permissions tables;                *)
(*   SpecAudit     the audited operations: document upload and download,   *)
(*                 profile update, and the audit table;                    *)
(*   SpecVersions  concurrent createVersion calls on one document.         *)
(***************************************************************************)
EXTENDS Integers, Sequences, FiniteSets, TLC

(***************************************************************************)
(* Permission keys.  A key is a string; it is represented by the sequence  *)
(* of its dot-free segments, which is exactly what String.split('.')       *)
(* returns ("documents.delete" is <<"documents", "delete">>), so that      *)
(* split, the template `${resource}.*` and Array.includes are computed on  *)
(* the representation and not assumed.                                     *)
(***************************************************************************)
Segments == {"documents", "users", "delete", "delete_all", "*"}

\* Longest key, in segments.
MaxSegs == 2

Keys == UNION {[1..n -> Segments] : n \in 1..MaxSegs}

\* `required` absent (undefined) or the empty string: both are falsy in JS.
NoKey == <<>>

Star == <<"*">>

\* required.split('.')
split(key) == key

\* `${resource}.*`
ResourceWildcard(resource) == <<resource, "*">>

\* The permission arrays of the model: at most two keys.
PermSets == {{}} \cup {{a, b} : a \in Keys, b \in Keys}

DocumentsDelete == <<"documents", "delete">>

DocumentsDeleteAll == <<"documents", "delete_all">>

(***************************************************************************)
(* The RBAC tables and the token service.                                  *)
(***************************************************************************)
UserIds == {1}

\* Logins may also name an email no user has.
UnknownEmail == 0

RoleIds == {1}

PermIds == {1, 2}

\* permissions.name: unique per row.
PermName(id) == IF id = 1 THEN DocumentsDelete ELSE DocumentsDeleteAll

Statuses == {"active", "inactive", "suspended", "pending"}

Passwords == {"right", "wrong"}

\* users.password holds the bcrypt hash of each user's password.
bcryptHash(password) == <<"bcrypt", password>>

bcryptCompare(password, hash) == hash = bcryptHash(password)

\* Clock ticks the model runs for.
MaxTime == 2

\* Requests the model serves in one behaviour of the token machine.
MaxRequests == 3

\* Requests the model serves in one behaviour once the tables change too.
MaxRbacRequests == 2

\* Privileged mutations of the RBAC tables in one behaviour.
MaxAdminOps == 1

\* JWT_ACCESS_TOKEN_EXPIRY ('15m') and JWT_REFRESH_TOKEN_EXPIRY ('7d'), in
\* clock ticks of the model: the access token is the short-lived one.
AccessLifetime == 1

RefreshLifetime == 2

\* Request slots: requests in flight at the same time.
Slots == {1, 2}

\* process.env.NODE_ENV: the deployment environments.
NodeEnvs == {"production", "development"}

VARIABLES
    permissions,    \* gate: the caller's permission array (token snapshot)
    checked,        \* gate: last hasPermission call, [required, result] or none
    documents,      \* gate: ids of the documents that are not deleted
    deleteReq,      \* gate: last DELETE /documents/:id, [caller, id, status]
    now,            \* Date.now(), in ticks
    userStatus,     \* users.status
    userRole,       \* users.role_id, 0 for NULL
    roleActive,     \* roles.is_active
    rolePerms,      \* role_permissions: role id -> set of permission ids
    permActive,     \* permissions.is_active
    issued,         \* every token signed with JWT_SECRET so far
    nextSession,    \* source of fresh sessionId values
    req,            \* slot -> the login or refresh in flight in it
    last,           \* the response of the request completed last
    nRequests,      \* requests started
    nAdminOps,      \* privileged mutations done
    redeemed,       \* history: refresh tokens a refresh has succeeded with
    loggedOut,      \* history: refresh cookies a logout has completed for
    lastHeld,       \* history: user -> permission id -> last time held, -1 never
    signedFrom,     \* history: access token -> latest read its permissions came from
    nodeEnv,        \* process.env.NODE_ENV
    roles,          \* ids of the rows of the roles table
    profiles,       \* users: id -> firstName, lastName, email
    profileReq,     \* slot -> the updateProfile in flight in it
    files,          \* storage: the paths that hold a file
    documentRows,   \* the rows of the documents table
    versionRows,    \* the rows of the document_versions table
    auditLog,       \* the rows of the audit table, oldest first
    uploadReq,      \* slot -> the upload in flight in it
    docLast,        \* the response of the document/profile request completed last
    nSucceeded,     \* history: CREATE/UPDATE/DELETE/ACCESS operations answered with success
    nextId,         \* source of fresh uuid() and row id values
    nDocRequests,   \* document/profile requests started
    cvReq,          \* call -> the createVersion in flight
    docLock,        \* document id -> the call holding its row lock, 0 for none
    users,          \* ids of the rows of the users table (not soft-deleted)
    accessToken,    \* frontend: the in-memory access token, NullToken for null
    creq,           \* frontend: call -> the apiClient request in flight
    sinceLogout,    \* history: logout() has completed and no login() has succeeded since
    clientEnv,      \* frontend: typeof window !== 'undefined', USE_MOCK_AUTH
    navigating,     \* frontend: window.location.href was assigned, the page not yet unloaded
    nClientCalls,   \* frontend: calls started
    migFiles,       \* migrate.sh: the file names in MIGRATIONS_DIR
    migTable,       \* migrate.sh: the rows of _migrations, by id
    migRun,         \* migrate.sh: the run of the script in progress
    migSql,         \* migrate.sh: the SQL files executed, in order
    errexitArith,   \* migrate.sh: this bash applies `set -e` to (( )) commands
    nRuns,          \* migrate.sh: runs of the script started
    migHist         \* history: the runs completed, oldest first

gateVars == <<permissions, checked, documents, deleteReq>>

docVars == <<profiles, profileReq, files, documentRows, versionRows, auditLog,
             uploadReq, docLast, nSucceeded, nextId, nDocRequests, cvReq,
             docLock>>

dbVars == <<userStatus, userRole, roleActive, rolePerms, permActive, roles,
            users>>

clientVars == <<accessToken, creq, sinceLogout, clientEnv, navigating,
                nClientCalls>>

migVars == <<migFiles, migTable, migRun, migSql, errexitArith, nRuns, migHist>>

authVars == <<now, userStatus, userRole, roleActive, rolePerms, permActive,
              roles, users, issued, nextSession, req, last, nRequests,
              nAdminOps, redeemed, loggedOut, lastHeld, signedFrom, nodeEnv>>

vars == <<permissions, checked, documents, deleteReq, now, userStatus,
          userRole, roleActive, rolePerms, permActive, issued, nextSession,
          req, last, nRequests, nAdminOps, redeemed, loggedOut, lastHeld,
          signedFrom, nodeEnv, roles, profiles, profileReq, files,
          documentRows, versionRows, auditLog, uploadReq, docLast, nSucceeded,
          nextId, nDocRequests, cvReq, docLock, users, accessToken, creq,
          sinceLogout, clientEnv, navigating, nClientCalls, migFiles,
          migTable, migRun, migSql, errexitArith, nRuns, migHist>>

(***************************************************************************)
(* The permission check.                                                   *)
(***************************************************************************)

\* The check without the global wildcard branch.
hasPermission_NoGlobalWildcard(perms, required) ==
    IF required = NoKey THEN TRUE
    ELSE IF required \in perms THEN TRUE
    ELSE ResourceWildcard(Head(split(required))) \in perms

\* sidebar.tsx hasPermission(required): permissions is the component's prop.
hasPermission(perms, required) ==
    IF required = NoKey THEN TRUE
    ELSE IF Star \in perms THEN TRUE
    ELSE IF required \in perms THEN TRUE
    ELSE ResourceWildcard(Head(split(required))) \in perms

\* PermissionsGuard.hasPermissions(user, required): every required key is
\* held exactly or through the wildcard of its resource.
hasPermissions(perms, required) ==
    \A perm \in required :
        \/ perm \in perms
        \/ ResourceWildcard(Head(split(perm))) \in perms

(***************************************************************************)
(* Tokens.  A token is its payload; jwtService.sign adds iat and exp.      *)
(* Access payload: sub, role, permissions.  Refresh payload: sub,          *)
(* sessionId.  The field a payload lacks holds its empty value.            *)
(***************************************************************************)
NoToken == [typ |-> "none", sub |-> 0, role |-> 0, permissions |-> {},
            sessionId |-> 0, iat |-> 0, exp |-> 0]

NoRole == [id |-> 0, isActive |-> FALSE, permissions |-> {}]

NoUser == [id |-> 0, status |-> "none", password |-> <<>>, role |-> NoRole]

\* The row of role `r` with its eager permissions relation.
RoleEntity(r) ==
    IF r = 0 THEN NoRole
    ELSE [id |-> r, isActive |-> roleActive[r],
          permissions |-> {[name |-> PermName(q), isActive |-> permActive[q]] :
                              q \in rolePerms[r]}]

\* The row of user `u` with relations ['role', 'role.permissions'].
UserEntity(u) ==
    [id |-> u, status |-> userStatus[u], password |-> bcryptHash("right"),
     role |-> RoleEntity(userRole[u])]

\* userRepository.findOne({ where: { email } }): user u has email u.
findOneByEmail(email) == IF email \in users THEN UserEntity(email) ELSE NoUser

\* userRepository.findOne({ where: { id } })
findOneById(id) == IF id \in users THEN UserEntity(id) ELSE NoUser

\* user.role?.permissions?.filter((p) => p.isActive).map((p) => p.name) || []
ExtractPermissions(user) ==
    IF user.role = NoRole THEN {}
    ELSE {q.name : q \in {x \in user.role.permissions : x.isActive}}

\* generateAccessToken(user, permissions), signed at `t`.
generateAccessToken(user, perms, t) ==
    [typ |-> "access", sub |-> user.id, role |-> user.role.id,
     permissions |-> perms, sessionId |-> 0,
     iat |-> t, exp |-> t + AccessLifetime]

\* generateRefreshToken(user), signed at `t` with a fresh session id.
generateRefreshToken(user, session, t) ==
    [typ |-> "refresh", sub |-> user.id, role |-> 0, permissions |-> {},
     sessionId |-> session, iat |-> t, exp |-> t + RefreshLifetime]

\* verify with ignoreExpiration set.
verify_IgnoreExpiration(token, t) == token \in issued

\* jwtService.verify(token): the signature is ours and the token is not
\* expired (jsonwebtoken rejects when now >= exp).
verify(token, t) == token \in issued /\ t < token.exp

(***************************************************************************)
(* Requests.  A login or a refresh is in flight between its database read  *)
(* and the signing of its tokens, in a slot; every completed request       *)
(* leaves its response in `last`.                                          *)
(***************************************************************************)
NoCookie == [kind |-> "none", value |-> NoToken, httpOnly |-> FALSE,
             secure |-> FALSE, sameSite |-> "none"]

NoReqUser == [id |-> 0, role |-> 0, permissions |-> {}]

IdleReq ==
    [op |-> "none", email |-> 0, password |-> "wrong", tok |-> NoToken,
     user |-> NoUser, afterUse |-> FALSE, afterLogout |-> FALSE,
     readAt |-> 0, stored |-> {}]

NoResponse ==
    [op |-> "none", tok |-> NoToken, status |-> 0, accessToken |-> NoToken,
     setCookie |-> NoCookie, reqUser |-> NoReqUser, user |-> NoUser,
     afterUse |-> FALSE, afterLogout |-> FALSE, reuse |-> FALSE,
     readAt |-> 0, at |-> 0, stored |-> {}, message |-> ""]

\* Slots are interchangeable: a new request takes the lowest idle one.
Free(p) ==
    /\ nRequests < MaxRequests
    /\ req[p].op = "none"
    /\ \A o \in Slots : o < p => req[o].op # "none"

\* The permission ids the tables give user `u` now: one role per user, the
\* role's rows of role_permissions, the active permissions among them.
Held(u) ==
    IF u \notin users \/ userRole[u] = 0 THEN {}
    ELSE {q \in rolePerms[userRole[u]] : permActive[q]}

HeldNames(u) == {PermName(q) : q \in Held(u)}

(***************************************************************************)
(* Documents, versions, the audit table and profiles: the state at rest.   *)
(***************************************************************************)
\* Users of the profile endpoints.  User u starts with email u.
ProfileIds == {1, 2}

NoProfile == [id |-> 0, firstName |-> "", lastName |-> "", email |-> 0]

IdleProfileReq == [pc |-> "idle", userId |-> 0, dto |-> <<>>, user |-> NoProfile]

IdleUpload == [pc |-> "idle", user |-> 0, documentId |-> 0, version |-> 0,
               filePath |-> <<>>]

NoDocResponse == [op |-> "none", status |-> 0, user |-> 0, documentId |-> 0,
                  version |-> 0]

IdleCall == [pc |-> "idle", next |-> 0, retried |-> FALSE, result |-> 0]

\* Requests in flight at the same time, per kind.
DocSlots == {1, 2}

\* The document the createVersion calls are about, and the calls.
FreshDoc == 1

\* Concurrent createVersion calls on that document.
MaxCalls == 3

Calls == 1..MaxCalls

DocStart ==
    /\ profiles = [u \in ProfileIds |->
                      [id |-> u, firstName |-> "Ann", lastName |-> "Lee",
                       email |-> u]]
    /\ profileReq = [p \in DocSlots |-> IdleProfileReq]
    /\ files = {}
    /\ documentRows = {}
    /\ versionRows = {}
    /\ auditLog = <<>>
    /\ uploadReq = [p \in DocSlots |-> IdleUpload]
    /\ docLast = NoDocResponse
    /\ nSucceeded = 0
    /\ nextId = 2
    /\ nDocRequests = 0
    /\ cvReq = [c \in Calls |-> IdleCall]
    /\ docLock = 0

AuthStart ==
    /\ now = 0
    /\ roles = RoleIds
    /\ users = UserIds
    /\ userStatus = [u \in UserIds |-> "active"]
    /\ userRole = [u \in UserIds |-> IF u = 1 THEN 1 ELSE 0]
    /\ roleActive = [r \in RoleIds |-> TRUE]
    /\ rolePerms = [r \in RoleIds |-> IF r = 1 THEN {1, 2} ELSE {1}]
    /\ permActive = [q \in PermIds |-> TRUE]
    /\ issued = {}
    /\ nextSession = 1
    /\ req = [p \in Slots |-> IdleReq]
    /\ last = NoResponse
    /\ nRequests = 0
    /\ nAdminOps = 0
    /\ redeemed = {}
    /\ loggedOut = {}
    /\ lastHeld = [u \in UserIds |-> [q \in PermIds |->
                       IF u = 1 THEN 0 ELSE -1]]
    /\ signedFrom = <<>>

(***************************************************************************)
(* The frontend: lib/api-client.ts and lib/auth.ts.  The access token is a *)
(* module variable; every apiClient request passes the request and the     *)
(* response interceptor.  JavaScript runs one event at a time: the arrival *)
(* of a response, with every promise continuation it triggers, is one      *)
(* step.  The server is left open: it answers 200, 401 or 500 as it likes. *)
(***************************************************************************)
\* apiClient requests started in one behaviour.
MaxClientCalls == 2

ClientCalls == 1..MaxClientCalls

\* History counters count up to CountCap.
CountCap == 2

count(n) == IF n < CountCap THEN n + 1 ELSE n

\* let accessToken: string | null = null
NullToken == "null"

\* response.data.data.accessToken of a login, data.data.accessToken of a
\* refresh.
LoginToken == "login-token"

RefreshedToken == "refreshed-token"

\* Request URLs, as their path segments.
LoginUrl == <<"api", "v1", "auth", "login">>

RefreshUrl == <<"api", "v1", "auth", "refresh">>

LogoutUrl == <<"api", "v1", "auth", "logout">>

DocumentsUrl == <<"api", "v1", "documents">>

\* url.includes(part): `part` occurs in `url` as consecutive segments.
includes(url, part) ==
    \E i \in 0..(Len(url) - Len(part)) :
        \A j \in 1..Len(part) : url[i + j] = part[j]

HttpStatuses == {200, 401, 500}

\* The interceptor's test without the _retry flag.
shouldRefresh_NoRetryFlag(status, retry, url) ==
    /\ status = 401
    /\ ~includes(url, <<"auth", "login">>)
    /\ ~includes(url, <<"auth", "refresh">>)

\* status === 401 && !_retry && !isLoginEndpoint && !isRefreshEndpoint
shouldRefresh(status, retry, url) ==
    /\ status = 401
    /\ ~retry
    /\ ~includes(url, <<"auth", "login">>)
    /\ ~includes(url, <<"auth", "refresh">>)

\* A finally block that runs only when the try block did not throw.
logoutFinally_OnlyOnSuccess(rejected, token) ==
    IF rejected THEN token ELSE NullToken

\* logout's `finally { setAccessToken(null) ... }`: the token it leaves.
logoutFinally(rejected, token) == NullToken

\* isAuthenticated(): getAccessToken() !== null
isAuthenticated(token) == token # NullToken

NoCall == [fn |-> "none", url |-> <<>>, pc |-> "idle", retry |-> FALSE,
           authorization |-> NullToken, nRefresh |-> 0, nSent |-> 0,
           outcome |-> "none", why |-> "none", tokenAfter |-> NullToken]

ClientEnvs == [hasWindow : BOOLEAN, useMockAuth : BOOLEAN]

BrowserEnv == [hasWindow |-> TRUE, useMockAuth |-> FALSE]

ClientIdle ==
    /\ accessToken = NullToken
    /\ creq = [c \in ClientCalls |-> NoCall]
    /\ sinceLogout = FALSE
    /\ navigating = FALSE
    /\ nClientCalls = 0

ClientStart == ClientIdle /\ clientEnv = BrowserEnv

(***************************************************************************)
(* infra/scripts/migrate.sh.  A file name is the sequence of the segments  *)
(* between its underscores, without the .sql suffix; MIGRATIONS_DIR is a   *)
(* set of file names; _migrations is the sequence of its rows by id.       *)
(***************************************************************************)
\* Runs of the script in one behaviour.
MaxRuns == 2

\* 00000000_000_create_migrations_table.sql
TrackingTable == <<"00000000", "000", "create", "migrations", "table">>

\* Forward migrations, named YYYYMMDD_NNN_description.sql.
Forward ==
    {<<"20260104", "001", "create", "users", "table">>,
     <<"20260104", "002", "create", "roles", "table">>}

\* The rollback of 20260104_002_create_roles_table.sql as the README names
\* it: 20260104_002_rollback_roles_table.sql.
rollbackByExample(m) == <<m[1], m[2], "rollback">> \o SubSeq(m, 4, Len(m))

\* YYYYMMDD_NNN_rollback_description.sql with the whole description kept.
rollbackByPattern(m) == <<m[1], m[2], "rollback">> \o SubSeq(m, 3, Len(m))

\* ${migration_name#*_}: the name without its first segment.
afterFirstUnderscore(name) == Tail(name)

\* "${migration_name%.sql}_rollback_${migration_name#*_}.sql"
firstCandidate(name) == name \o <<"rollback">> \o afterFirstUnderscore(name)

\* The directories: the forward files with their rollbacks, named in one of
\* the three ways.
MigDirs ==
    {{TrackingTable} \cup Forward \cup {rollbackByExample(m) : m \in Forward},
     {TrackingTable} \cup Forward \cup {rollbackByPattern(m) : m \in Forward},
     {TrackingTable} \cup Forward \cup {firstCandidate(m) : m \in Forward}}

\* Every file name above in the order of `ls` and of `sort`.
LsOrder ==
    <<TrackingTable,
      <<"20260104", "001", "create", "users", "table">>,
      firstCandidate(<<"20260104", "001", "create", "users", "table">>),
      rollbackByPattern(<<"20260104", "001", "create", "users", "table">>),
      rollbackByExample(<<"20260104", "001", "create", "users", "table">>),
      <<"20260104", "002", "create", "roles", "table">>,
      firstCandidate(<<"20260104", "002", "create", "roles", "table">>),
      rollbackByPattern(<<"20260104", "002", "create", "roles", "table">>),
      rollbackByExample(<<"20260104", "002", "create", "roles", "table">>)>>

NoRun == [cmd |-> "none", pc |-> "idle", batch |-> 0, todo |-> <<>>,
          executed_count |-> 0, before |-> <<>>, sql |-> <<>>]

MigIdle ==
    /\ migTable = <<>>
    /\ migRun = NoRun
    /\ migSql = <<>>
    /\ nRuns = 0
    /\ migHist = <<>>

MigStart ==
    /\ MigIdle
    /\ migFiles = {TrackingTable} \cup Forward
                      \cup {rollbackByExample(m) : m \in Forward}
    /\ errexitArith = TRUE


(***************************************************************************)
(* The gate machine: one request per behaviour, against a caller whose     *)
(* permission array is drawn at the start.  The request is either one      *)
(* permission check or one DELETE /documents/:id on a document uploaded    *)
(* by user 1.                                                              *)
(***************************************************************************)
GateUsers == {1, 2}

DocId == 1

uploaded_by(id) == 1

NoCheck == [required |-> NoKey, result |-> FALSE, guarded |-> FALSE,
            done |-> FALSE]

NoDelete == [caller |-> 0, id |-> 0, status |-> 0]

GateIdle == ~checked.done /\ deleteReq = NoDelete

\* The state of the server, of the documents and of the gate at rest.
ServerStart ==
    /\ permissions = {}
    /\ checked = NoCheck
    /\ documents = {DocId}
    /\ deleteReq = NoDelete
    /\ nodeEnv = "production"
    /\ AuthStart
    /\ DocStart

GateInit ==
    /\ permissions \in PermSets
    /\ checked = NoCheck
    /\ documents = {DocId}
    /\ deleteReq = NoDelete
    /\ nodeEnv = "production"
    /\ AuthStart
    /\ DocStart
    /\ ClientStart
    /\ MigStart

\* One rendering of a navigation item guarded by `required`, and the
\* guard's answer for a handler requiring [required] and the same array.
CheckPermission(required) ==
    /\ GateIdle
    /\ checked' = [required |-> required,
                   result |-> hasPermission(permissions, required),
                   guarded |-> hasPermissions(permissions,
                                   IF required = NoKey THEN {}
                                   ELSE {required}),
                   done |-> TRUE]
    /\ UNCHANGED <<permissions, documents, deleteReq>>
    /\ UNCHANGED authVars
    /\ UNCHANGED docVars
    /\ UNCHANGED <<clientVars, migVars>>

\* DELETE /documents/:id by `caller`: @RequirePermissions('documents.delete')
\* runs the guard, then the handler checks delete_all / ownership.
DeleteDocument(caller, id) ==
    /\ GateIdle
    /\ id \in documents
    /\ IF ~hasPermissions(permissions, {DocumentsDelete})
       THEN /\ deleteReq' = [caller |-> caller, id |-> id, status |-> 403]
            /\ UNCHANGED documents
       ELSE LET hasDeleteAll == DocumentsDeleteAll \in permissions
            IN  IF ~hasDeleteAll /\ uploaded_by(id) # caller
                THEN /\ deleteReq' = [caller |-> caller, id |-> id, status |-> 403]
                     /\ UNCHANGED documents
                ELSE /\ deleteReq' = [caller |-> caller, id |-> id, status |-> 200]
                     /\ documents' = documents \ {id}
    /\ UNCHANGED <<permissions, checked>>
    /\ UNCHANGED authVars
    /\ UNCHANGED docVars
    /\ UNCHANGED <<clientVars, migVars>>

GateNext ==
    \/ \E required \in Keys \cup {NoKey} : CheckPermission(required)
    \/ \E caller \in GateUsers : DeleteDocument(caller, DocId)

SpecGate == GateInit /\ [][GateNext]_vars

(***************************************************************************)
(* The token service machine.                                              *)
(***************************************************************************)
Init ==
    /\ permissions = {}
    /\ checked = NoCheck
    /\ documents = {DocId}
    /\ deleteReq = NoDelete
    /\ nodeEnv \in NodeEnvs
    /\ AuthStart
    /\ DocStart
    /\ ClientStart
    /\ MigStart

\* History: after a change of the tables or of the clock, a permission held
\* now was last held now.  `held` maps each user to the permissions held.
LastHeldAfter(t, held) ==
    [u \in UserIds |-> [q \in PermIds |->
        IF q \in held[u] THEN t ELSE lastHeld[u][q]]]

Tick ==
    /\ now < MaxTime
    /\ now' = now + 1
    /\ UNCHANGED dbVars
    /\ lastHeld' = LastHeldAfter(now', [u \in UserIds |-> Held(u)'])
    /\ UNCHANGED <<gateVars, clientVars, migVars, docVars, nodeEnv, issued, nextSession, req, last, nRequests,
                   nAdminOps, redeemed, loggedOut, signedFrom>>

(* Privileged mutations of the tables (admin actions, seeds). *)
AdminFrame ==
    /\ nAdminOps < MaxAdminOps
    /\ nAdminOps' = nAdminOps + 1
    /\ lastHeld' = LastHeldAfter(now, [u \in UserIds |-> Held(u)'])
    /\ UNCHANGED <<gateVars, clientVars, migVars, docVars, nodeEnv, now, issued, nextSession, req, last,
                   nRequests, redeemed, loggedOut, signedFrom>>

SetUserStatus(u, st) ==
    /\ st # userStatus[u]
    /\ userStatus' = [userStatus EXCEPT ![u] = st]
    /\ UNCHANGED <<userRole, roleActive, rolePerms, permActive, roles, users>>
    /\ AdminFrame

SetUserRole(u, r) ==
    /\ r # userRole[u]
    /\ r = 0 \/ r \in roles
    /\ userRole' = [userRole EXCEPT ![u] = r]
    /\ UNCHANGED <<userStatus, roleActive, rolePerms, permActive, roles, users>>
    /\ AdminFrame

SetRoleActive(r, b) ==
    /\ r \in roles
    /\ b # roleActive[r]
    /\ roleActive' = [roleActive EXCEPT ![r] = b]
    /\ UNCHANGED <<userStatus, userRole, rolePerms, permActive, roles, users>>
    /\ AdminFrame

\* INSERT INTO / DELETE FROM role_permissions
SetRolePermission(r, q, present) ==
    /\ r \in roles
    /\ present # (q \in rolePerms[r])
    /\ rolePerms' = [rolePerms EXCEPT
                        ![r] = IF present THEN @ \cup {q} ELSE @ \ {q}]
    /\ UNCHANGED <<userStatus, userRole, roleActive, permActive, roles, users>>
    /\ AdminFrame

SetPermissionActive(q, b) ==
    /\ b # permActive[q]
    /\ permActive' = [permActive EXCEPT ![q] = b]
    /\ UNCHANGED <<userStatus, userRole, roleActive, rolePerms, roles, users>>
    /\ AdminFrame

\* A foreign key without a referential action that the engine enforces.
onDeleteSetNull_Unenforced(r) == userRole

\* fk_users_role ... ON DELETE SET NULL
onDeleteSetNull(r) == [u \in UserIds |-> IF userRole[u] = r THEN 0 ELSE userRole[u]]

\* fk_role_permissions_role ... ON DELETE CASCADE
onDeleteCascade(r) == [rolePerms EXCEPT ![r] = {}]

\* DELETE FROM roles WHERE id = r
DeleteRole(r) ==
    /\ r \in roles
    /\ roles' = roles \ {r}
    /\ userRole' = onDeleteSetNull(r)
    /\ rolePerms' = onDeleteCascade(r)
    /\ roleActive' = [roleActive EXCEPT ![r] = FALSE]
    /\ UNCHANGED <<userStatus, permActive, users>>
    /\ AdminFrame

\* The row of user `u` is removed (deleted_at is set): findOne no longer
\* returns it.
DeleteUser(u) ==
    /\ u \in users
    /\ users' = users \ {u}
    /\ UNCHANGED <<userStatus, userRole, roleActive, rolePerms, permActive,
                   roles>>
    /\ AdminFrame

(* Requests. *)

\* The fields a response takes over from the request it answers.
Answer(r, st) ==
    [NoResponse EXCEPT !.op = r.op, !.tok = r.tok, !.status = st,
                       !.user = r.user, !.afterUse = r.afterUse,
                       !.afterLogout = r.afterLogout, !.readAt = r.readAt,
                       !.at = now, !.stored = r.stored]

\* History: the access token `at` was signed from a read at `t`.
SignedFromAfter(at, t) ==
    IF at \in DOMAIN signedFrom /\ signedFrom[at] >= t
    THEN signedFrom
    ELSE (at :> t) @@ signedFrom

\* POST /auth/login: validateUser's findOne reads the user row.
StartLogin(p, email, password) ==
    /\ Free(p)
    /\ LET user == findOneByEmail(email)
       IN  req' = [req EXCEPT ![p] =
                      [IdleReq EXCEPT !.op = "login", !.email = email,
                                      !.password = password, !.user = user,
                                      !.readAt = now,
                                      !.stored = IF user = NoUser THEN {}
                                                 ELSE HeldNames(user.id)]]
    /\ nRequests' = nRequests + 1
    /\ UNCHANGED <<gateVars, clientVars, migVars, docVars, nodeEnv, now, dbVars, issued, nextSession, last,
                   nAdminOps, redeemed, loggedOut, lastHeld, signedFrom>>

\* validateUser without the comparison of the password.
validateUser_NoPasswordCheck(user, password) ==
    /\ user # NoUser
    /\ user.status = "active"

\* validateUser without the check of the status.
validateUser_NoStatusCheck(user, password) ==
    /\ user # NoUser
    /\ bcryptCompare(password, user.password)

\* validateUser's checks on the row found.
validateUser(user, password) ==
    /\ user # NoUser
    /\ user.status = "active"
    /\ bcryptCompare(password, user.password)

\* The message of the UnauthorizedException validateUser throws.
validateUserMessage(user, password) ==
    IF user = NoUser THEN "Invalid email or password"
    ELSE IF user.status # "active" THEN "Account is not active"
    ELSE "Invalid email or password"

\* response.cookie('refreshToken', token, { httpOnly, secure, sameSite }).
refreshTokenCookie(token) ==
    [kind |-> "set", value |-> token, httpOnly |-> TRUE,
     secure |-> nodeEnv = "production",
     sameSite |-> IF nodeEnv = "production" THEN "strict" ELSE "lax"]

\* response.clearCookie('refreshToken')
clearedCookie == [NoCookie EXCEPT !.kind = "clear"]

\* What Nest answers for an exception that is not an HttpException.
InternalServerError == "Internal server error"

InvalidRefreshToken == "Invalid refresh token"

\* The rest of validateUser, AuthService.login and AuthController.login.
FinishLogin(p) ==
    /\ req[p].op = "login"
    /\ LET r == req[p]
       IN  IF ~validateUser(r.user, r.password)
           THEN /\ last' = [Answer(r, 401) EXCEPT
                                  !.message = validateUserMessage(r.user, r.password)]
                /\ UNCHANGED <<issued, nextSession, signedFrom>>
           ELSE LET perms == ExtractPermissions(r.user)
                    at == generateAccessToken(r.user, perms, now)
                    rt == generateRefreshToken(r.user, nextSession, now)
                IN  /\ issued' = issued \cup {at, rt}
                    /\ nextSession' = nextSession + 1
                    /\ signedFrom' = SignedFromAfter(at, r.readAt)
                    /\ last' = [Answer(r, 200) EXCEPT
                                  !.accessToken = at,
                                  !.setCookie = refreshTokenCookie(rt)]
    /\ req' = [req EXCEPT ![p] = IdleReq]
    /\ UNCHANGED <<gateVars, clientVars, migVars, docVars, nodeEnv, now, dbVars, nRequests, nAdminOps, redeemed,
                   loggedOut, lastHeld>>

\* POST /auth/refresh: AuthController.refresh reads the cookie, then
\* refreshAccessToken verifies it and its findOne reads the user row.
StartRefresh(p, cookie) ==
    /\ Free(p)
    /\ nRequests' = nRequests + 1
    /\ LET r == [IdleReq EXCEPT !.op = "refresh", !.tok = cookie,
                                !.readAt = now,
                                !.afterUse = cookie \in redeemed,
                                !.afterLogout = cookie \in loggedOut]
       IN  IF cookie = NoToken
           THEN /\ last' = [Answer(r, 500) EXCEPT
                                  !.message = InternalServerError]
                /\ UNCHANGED req
           ELSE IF ~verify(cookie, now)
           THEN /\ last' = [Answer(r, 401) EXCEPT
                                  !.message = InvalidRefreshToken]
                /\ UNCHANGED req
           ELSE LET user == findOneById(cookie.sub)
                IN  /\ req' = [req EXCEPT ![p] =
                                  [r EXCEPT !.user = user,
                                            !.stored = IF user = NoUser THEN {}
                                                       ELSE HeldNames(user.id)]]
                    /\ UNCHANGED last
    /\ UNCHANGED <<gateVars, clientVars, migVars, docVars, nodeEnv, now, dbVars, issued, nextSession, nAdminOps,
                   redeemed, loggedOut, lastHeld, signedFrom>>

\* Permissions taken from the tokens the user already has.
RefreshPermissions_FromOldTokens(r) ==
    UNION {t.permissions : t \in {x \in issued : x.sub = r.user.id}}

\* refreshAccessToken's permissions: extracted from the row just loaded.
RefreshPermissions(r) == ExtractPermissions(r.user)

\* The rest of refreshAccessToken.
FinishRefresh(p) ==
    /\ req[p].op = "refresh"
    /\ LET r == req[p]
       IN  IF r.user = NoUser \/ r.user.status # "active"
           THEN /\ last' = [Answer(r, 401) EXCEPT
                                  !.message = InvalidRefreshToken]
                /\ UNCHANGED <<issued, redeemed, signedFrom>>
           ELSE LET perms == RefreshPermissions(r)
                    at == generateAccessToken(r.user, perms, now)
                IN  /\ issued' = issued \cup {at}
                    /\ redeemed' = redeemed \cup {r.tok}
                    /\ signedFrom' = SignedFromAfter(at, r.readAt)
                    /\ last' = [Answer(r, 200) EXCEPT
                                  !.accessToken = at,
                                  !.reuse = r.tok \in redeemed]
    /\ req' = [req EXCEPT ![p] = IdleReq]
    /\ UNCHANGED <<gateVars, clientVars, migVars, docVars, nodeEnv, now, dbVars, nextSession, nRequests, nAdminOps,
                   loggedOut, lastHeld>>

\* POST /auth/logout: clears the cookie and answers 200.
Logout(cookie) ==
    /\ nRequests < MaxRequests
    /\ nRequests' = nRequests + 1
    /\ last' = [Answer([IdleReq EXCEPT !.op = "logout", !.tok = cookie], 200)
                   EXCEPT !.setCookie = clearedCookie]
    /\ loggedOut' = loggedOut \cup ({cookie} \ {NoToken})
    /\ UNCHANGED <<gateVars, clientVars, migVars, docVars, nodeEnv, now, dbVars, issued, nextSession, req, nAdminOps,
                   redeemed, lastHeld, signedFrom>>

\* validate with the permissions taken from the row just loaded.
validate_FromDatabase(payload, user) ==
    [id |-> payload.sub, role |-> payload.role,
     permissions |-> ExtractPermissions(user)]

\* JwtStrategy.validate's result: request.user.
validate(payload, user) ==
    [id |-> payload.sub, role |-> payload.role,
     permissions |-> payload.permissions]

\* A request to an endpoint behind JwtAuthGuard: passport-jwt extracts and
\* verifies the bearer token, then JwtStrategy.validate loads the user
\* (getUserById throws NotFound) and builds request.user.
ApiRequest(bearer) ==
    /\ nRequests < MaxRequests
    /\ nRequests' = nRequests + 1
    /\ LET r == [IdleReq EXCEPT !.op = "api", !.tok = bearer, !.readAt = now]
       IN  IF ~verify(bearer, now)
           THEN last' = Answer(r, 401)
           ELSE LET user == findOneById(bearer.sub)
                    a == [r EXCEPT !.user = user]
                IN  IF user = NoUser THEN last' = Answer(a, 404)
                    ELSE IF user.status # "active" THEN last' = Answer(a, 401)
                    ELSE last' = [Answer(a, 200) EXCEPT
                                     !.reqUser = validate(bearer, user)]
    /\ UNCHANGED <<gateVars, clientVars, migVars, docVars, nodeEnv, now, dbVars, issued, nextSession, req, nAdminOps,
                   redeemed, loggedOut, lastHeld, signedFrom>>

Presentable == issued \cup {NoToken}

Requests ==
    \/ \E p \in Slots, e \in UserIds \cup {UnknownEmail}, pw \in Passwords :
          StartLogin(p, e, pw)
    \/ \E p \in Slots, c \in Presentable : StartRefresh(p, c)
    \/ \E c \in Presentable : Logout(c)
    \/ \E b \in Presentable : ApiRequest(b)

Completions ==
    \/ \E p \in Slots : FinishLogin(p)
    \/ \E p \in Slots : FinishRefresh(p)

AdminOps ==
    \/ \E u \in UserIds, st \in Statuses : SetUserStatus(u, st)
    \/ \E u \in UserIds, r \in RoleIds \cup {0} : SetUserRole(u, r)
    \/ \E r \in RoleIds, b \in BOOLEAN : SetRoleActive(r, b)
    \/ \E r \in RoleIds, q \in PermIds, b \in BOOLEAN : SetRolePermission(r, q, b)
    \/ \E q \in PermIds, b \in BOOLEAN : SetPermissionActive(q, b)
    \/ \E r \in RoleIds : DeleteRole(r)
    \/ \E u \in UserIds : DeleteUser(u)

\* The token machine: the tables stay as seeded.
Next ==
    \/ Tick
    \/ Requests
    \/ Completions

Spec == Init /\ [][Next]_vars

\* The token machine over changing tables: one user with valid credentials,
\* one request in flight at a time.
RbacRequests ==
    /\ nRequests < MaxRbacRequests
    /\ \/ StartLogin(1, 1, "right")
       \/ \E c \in issued : StartRefresh(1, c)
       \/ \E b \in issued : ApiRequest(b)

RbacNext ==
    \/ Tick
    \/ AdminOps
    \/ RbacRequests
    \/ FinishLogin(1)
    \/ FinishRefresh(1)

\* The tables change in one deployment: production.
RbacInit == Init /\ nodeEnv = "production"

SpecRbac == RbacInit /\ [][RbacNext]_vars

(***************************************************************************)
(* The audited operations: document upload and download, and the profile   *)
(* update.  Every await that writes is a step of its own and may throw     *)
(* (StorageFailure); nothing in these handlers opens a transaction.        *)
(***************************************************************************)
\* Requests the model serves in one behaviour of the audit machine.
MaxDocRequests == 3

DocumentUpload == <<"document", "upload">>

DocumentView == <<"document", "view">>

\* The permission snapshots of the bearer tokens of the audit machine.
CallerPermSets == {{}, {DocumentUpload}, {DocumentUpload, DocumentView}}

\* An id no row of users has.
UnknownUser == 3

FirstNames == {"Ann", "Bob"}

LastNames == {"Lee", "Ray"}

Emails == {1, 2, 3}

\* UpdateProfileDto: every field is optional; {} is an absent field.
Dtos ==
    {[firstName |-> f, lastName |-> l, email |-> e] :
        f \in {{}} \cup {{x} : x \in FirstNames \ {"Ann"}},
        l \in {{}} \cup {{x} : x \in LastNames \ {"Lee"}},
        e \in {{}} \cup {{x} : x \in Emails}}

\* `/storage/documents/{doc_id}/v{version}/filename.ext`
storagePath(documentId, version) == <<"storage", documentId, version>>

\* A new request takes the lowest idle slot of its kind.
FreeDocSlot(p, slots) ==
    /\ nDocRequests < MaxDocRequests
    /\ slots[p].pc = "idle"
    /\ \A o \in DocSlots : o < p => slots[o].pc # "idle"

DocAnswer(op, st, user, documentId, version) ==
    [op |-> op, status |-> st, user |-> user, documentId |-> documentId,
     version |-> version]

\* auditService.log(entry): one INSERT INTO audit_logs.
auditEntry(user, action, resourceType, resourceId) ==
    [user_id |-> user, action |-> action, resource_type |-> resourceType,
     resource_id |-> resourceId]

\* POST /documents: JwtAuthGuard, PermissionsGuard('document.upload'), the
\* validation of the file, then uuid() and version = 1.
StartUpload(p, authed, perms, user, valid) ==
    /\ FreeDocSlot(p, uploadReq)
    /\ nDocRequests' = nDocRequests + 1
    /\ IF ~authed
       THEN /\ docLast' = DocAnswer("upload", 401, 0, 0, 0)
            /\ UNCHANGED <<uploadReq, nextId>>
       ELSE IF ~hasPermissions(perms, {DocumentUpload})
       THEN /\ docLast' = DocAnswer("upload", 403, user, 0, 0)
            /\ UNCHANGED <<uploadReq, nextId>>
       ELSE IF ~valid
       THEN /\ docLast' = DocAnswer("upload", 400, user, 0, 0)
            /\ UNCHANGED <<uploadReq, nextId>>
       ELSE /\ uploadReq' = [uploadReq EXCEPT ![p] =
                                [pc |-> "save", user |-> user,
                                 documentId |-> nextId, version |-> 1,
                                 filePath |-> <<>>]]
            /\ nextId' = nextId + 1
            /\ UNCHANGED docLast
    /\ UNCHANGED <<profiles, profileReq, files, documentRows, versionRows,
                   auditLog, nSucceeded, cvReq, docLock>>
    /\ UNCHANGED <<gateVars, clientVars, migVars, authVars>>

\* A step of the upload that threw: the exception reaches the caller as 500.
UploadThrows(p) ==
    /\ docLast' = DocAnswer("upload", 500, uploadReq[p].user,
                            uploadReq[p].documentId, uploadReq[p].version)
    /\ uploadReq' = [uploadReq EXCEPT ![p] = IdleUpload]

\* storageService.save(documentId, version, file)
StorageSave(p, ok) ==
    /\ uploadReq[p].pc = "save"
    /\ LET r == uploadReq[p]
           path == storagePath(r.documentId, r.version)
       IN  IF ok
           THEN /\ files' = files \cup {path}
                /\ uploadReq' = [uploadReq EXCEPT ![p].pc = "document",
                                                  ![p].filePath = path]
                /\ UNCHANGED docLast
           ELSE /\ UploadThrows(p)
                /\ UNCHANGED files
    /\ UNCHANGED <<profiles, profileReq, documentRows, versionRows, auditLog,
                   nSucceeded, nextId, nDocRequests, cvReq, docLock>>
    /\ UNCHANGED <<gateVars, clientVars, migVars, authVars>>

\* documentsService.create({ id, title, current_version, uploaded_by })
CreateDocument(p, ok) ==
    /\ uploadReq[p].pc = "document"
    /\ LET r == uploadReq[p]
       IN  IF ok
           THEN /\ documentRows' = documentRows \cup
                       {[id |-> r.documentId, current_version |-> r.version,
                         uploaded_by |-> r.user]}
                /\ uploadReq' = [uploadReq EXCEPT ![p].pc = "version"]
                /\ UNCHANGED docLast
           ELSE /\ UploadThrows(p)
                /\ UNCHANGED documentRows
    /\ UNCHANGED <<profiles, profileReq, files, versionRows, auditLog,
                   nSucceeded, nextId, nDocRequests, cvReq, docLock>>
    /\ UNCHANGED <<gateVars, clientVars, migVars, authVars>>

\* documentVersionsService.create({ document_id, version, file_path, ... })
CreateDocumentVersion(p, ok) ==
    /\ uploadReq[p].pc = "version"
    /\ LET r == uploadReq[p]
       IN  IF ok
           THEN /\ versionRows' = versionRows \cup
                       {[id |-> nextId, document_id |-> r.documentId,
                         version |-> r.version, file_path |-> r.filePath]}
                /\ nextId' = nextId + 1
                /\ uploadReq' = [uploadReq EXCEPT ![p].pc = "audit"]
                /\ UNCHANGED docLast
           ELSE /\ UploadThrows(p)
                /\ UNCHANGED <<versionRows, nextId>>
    /\ UNCHANGED <<profiles, profileReq, files, documentRows, auditLog,
                   nSucceeded, nDocRequests, cvReq, docLock>>
    /\ UNCHANGED <<gateVars, clientVars, migVars, authVars>>

\* auditService.log({ action: 'CREATE', ... }) and `return { data: document }`.
LogUpload(p, ok) ==
    /\ uploadReq[p].pc = "audit"
    /\ LET r == uploadReq[p]
       IN  IF ok
           THEN /\ auditLog' = Append(auditLog,
                        auditEntry(r.user, "CREATE", "document", r.documentId))
                /\ docLast' = DocAnswer("upload", 201, r.user, r.documentId,
                                        r.version)
                /\ nSucceeded' = nSucceeded + 1
                /\ uploadReq' = [uploadReq EXCEPT ![p] = IdleUpload]
           ELSE /\ UploadThrows(p)
                /\ UNCHANGED <<auditLog, nSucceeded>>
    /\ UNCHANGED <<profiles, profileReq, files, documentRows, versionRows,
                   nextId, nDocRequests, cvReq, docLock>>
    /\ UNCHANGED <<gateVars, clientVars, migVars, authVars>>

\* GET /documents/:id/download: the guards, findOne, findVersion, the
\* ACCESS audit entry, then the stream.
DownloadDocument(authed, perms, user, id, ok) ==
    /\ nDocRequests < MaxDocRequests
    /\ nDocRequests' = nDocRequests + 1
    /\ LET document == {d \in documentRows : d.id = id}
           version == {v \in versionRows :
                          /\ v.document_id = id
                          /\ \E d \in document : v.version = d.current_version}
       IN  IF ~authed
           THEN /\ docLast' = DocAnswer("download", 401, 0, id, 0)
                /\ UNCHANGED <<auditLog, nSucceeded>>
           ELSE IF ~hasPermissions(perms, {DocumentView})
           THEN /\ docLast' = DocAnswer("download", 403, user, id, 0)
                /\ UNCHANGED <<auditLog, nSucceeded>>
           ELSE IF document = {}
           THEN /\ docLast' = DocAnswer("download", 404, user, id, 0)
                /\ UNCHANGED <<auditLog, nSucceeded>>
           ELSE IF version = {} \/ ~ok
           THEN /\ docLast' = DocAnswer("download", 500, user, id, 0)
                /\ UNCHANGED <<auditLog, nSucceeded>>
           ELSE /\ auditLog' = Append(auditLog,
                        auditEntry(user, "ACCESS", "document", id))
                /\ docLast' = DocAnswer("download", 200, user, id,
                                        (CHOOSE v \in version : TRUE).version)
                /\ nSucceeded' = nSucceeded + 1
    /\ UNCHANGED <<profiles, profileReq, files, documentRows, versionRows,
                   uploadReq, nextId, cvReq, docLock>>
    /\ UNCHANGED <<gateVars, clientVars, migVars, authVars>>

\* UsersService.findById(id): NotFoundException when no row has the id.
findById(id) == IF id \in DOMAIN profiles THEN profiles[id] ELSE NoProfile

\* userRepository.findOne({ where: { email } })
findOneProfileByEmail(email) == {profiles[u] : u \in {x \in DOMAIN profiles :
                                                    profiles[x].email = email}}

\* "Update user fields": the fields of the dto that are not undefined.
applyDto(user, dto) ==
    [user EXCEPT
        !.firstName = IF dto.firstName = {} THEN @
                      ELSE CHOOSE x \in dto.firstName : TRUE,
        !.lastName = IF dto.lastName = {} THEN @
                     ELSE CHOOSE x \in dto.lastName : TRUE,
        !.email = IF dto.email = {} THEN @ ELSE CHOOSE x \in dto.email : TRUE]

ProfileAnswers(p, st) ==
    /\ docLast' = DocAnswer("updateProfile", st, profileReq[p].userId, 0, 0)
    /\ profileReq' = [profileReq EXCEPT ![p] = IdleProfileReq]

\* PUT /users/profile: JwtAuthGuard, then updateProfile's findById.
StartUpdateProfile(p, authed, userId, dto) ==
    /\ FreeDocSlot(p, profileReq)
    /\ nDocRequests' = nDocRequests + 1
    /\ IF ~authed
       THEN /\ docLast' = DocAnswer("updateProfile", 401, 0, 0, 0)
            /\ UNCHANGED profileReq
       ELSE IF findById(userId) = NoProfile
       THEN /\ docLast' = DocAnswer("updateProfile", 404, userId, 0, 0)
            /\ UNCHANGED profileReq
       ELSE /\ profileReq' = [profileReq EXCEPT ![p] =
                                 [pc |-> "check", userId |-> userId,
                                  dto |-> dto, user |-> findById(userId)]]
            /\ UNCHANGED docLast
    /\ UNCHANGED <<profiles, files, documentRows, versionRows, auditLog,
                   uploadReq, nSucceeded, nextId, cvReq, docLock>>
    /\ UNCHANGED <<gateVars, clientVars, migVars, authVars>>

\* The email check of updateProfile and the update of the loaded entity.
CheckEmail(p) ==
    /\ profileReq[p].pc = "check"
    /\ LET r == profileReq[p]
           asked == r.dto.email # {} /\ r.dto.email # {r.user.email}
           existingUser == IF asked
                           THEN findOneProfileByEmail(CHOOSE x \in r.dto.email : TRUE)
                           ELSE {}
       IN  IF existingUser # {}
           THEN ProfileAnswers(p, 409)
           ELSE /\ profileReq' = [profileReq EXCEPT
                                     ![p].pc = "save",
                                     ![p].user = applyDto(r.user, r.dto)]
                /\ UNCHANGED docLast
    /\ UNCHANGED <<profiles, files, documentRows, versionRows, auditLog,
                   uploadReq, nSucceeded, nextId, nDocRequests, cvReq,
                   docLock>>
    /\ UNCHANGED <<gateVars, clientVars, migVars, authVars>>

\* userRepository.save(user) under the unique index on users.email, then the
\* reload and the controller's 200.
SaveProfile(p) ==
    /\ profileReq[p].pc = "save"
    /\ LET r == profileReq[p]
           duplicate == \E u \in DOMAIN profiles :
                            u # r.userId /\ profiles[u].email = r.user.email
       IN  IF duplicate
           THEN /\ ProfileAnswers(p, 500)
                /\ UNCHANGED <<profiles, nSucceeded>>
           ELSE /\ profiles' = [profiles EXCEPT ![r.userId] = r.user]
                /\ ProfileAnswers(p, 200)
                /\ nSucceeded' = nSucceeded + 1
    /\ UNCHANGED <<files, documentRows, versionRows, auditLog, uploadReq,
                   nextId, nDocRequests, cvReq, docLock>>
    /\ UNCHANGED <<gateVars, clientVars, migVars, authVars>>

AuditInit ==
    /\ permissions = {}
    /\ checked = NoCheck
    /\ documents = {DocId}
    /\ deleteReq = NoDelete
    /\ nodeEnv = "production"
    /\ AuthStart
    /\ DocStart
    /\ ClientStart
    /\ MigStart

AuditNext ==
    \/ \E p \in DocSlots, authed \in BOOLEAN, perms \in CallerPermSets,
          valid \in BOOLEAN : StartUpload(p, authed, perms, 1, valid)
    \/ \E p \in DocSlots, ok \in BOOLEAN : StorageSave(p, ok)
    \/ \E p \in DocSlots, ok \in BOOLEAN : CreateDocument(p, ok)
    \/ \E p \in DocSlots, ok \in BOOLEAN : CreateDocumentVersion(p, ok)
    \/ \E p \in DocSlots, ok \in BOOLEAN : LogUpload(p, ok)
    \/ \E authed \in BOOLEAN, perms \in CallerPermSets, ok \in BOOLEAN,
          id \in 2..nextId : DownloadDocument(authed, perms, 1, id, ok)
    \/ \E p \in DocSlots, authed \in BOOLEAN,
          userId \in ProfileIds \cup {UnknownUser}, dto \in Dtos :
          StartUpdateProfile(p, authed, userId, dto)
    \/ \E p \in DocSlots : CheckEmail(p)
    \/ \E p \in DocSlots : SaveProfile(p)

SpecAudit == AuditInit /\ [][AuditNext]_vars

(***************************************************************************)
(* The Document Version Store: createVersion(documentId, content), as a    *)
(* serialized read-increment-write.  A call takes the lock of the          *)
(* document row with its read of the current version, writes the content   *)
(* at the path of (documentId, nextVersion), inserts the version row       *)
(* under the unique index on (document_id, version), moves the pointer     *)
(* and commits.  A conflict on the index rolls back and is retried once    *)
(* with a new read; a second conflict is surfaced as Conflict.             *)
(***************************************************************************)
\* The version the document row points to, 0 when the document has none.
currentVersion(documentId) ==
    IF \E d \in documentRows : d.id = documentId
    THEN (CHOOSE d \in documentRows : d.id = documentId).current_version
    ELSE 0

\* The read-increment-write runs without the row lock.
lockFree_Unserialized(documentId) == TRUE

\* SELECT ... FOR UPDATE waits while another transaction holds the row.
lockFree(documentId) == docLock = 0

\* The call arrives with its content.
ReceiveVersion(c) ==
    /\ cvReq[c].pc = "idle"
    /\ cvReq' = [cvReq EXCEPT ![c].pc = "begin"]
    /\ UNCHANGED <<profiles, profileReq, files, documentRows, versionRows,
                   auditLog, uploadReq, docLast, nSucceeded, nextId,
                   nDocRequests, docLock>>
    /\ UNCHANGED <<gateVars, clientVars, migVars, authVars>>

\* nextVersion = currentVersion + 1, read under the lock of the row.
BeginVersion(c) ==
    /\ cvReq[c].pc = "begin"
    /\ lockFree(FreshDoc)
    /\ docLock' = c
    /\ cvReq' = [cvReq EXCEPT ![c].pc = "write",
                              ![c].next = currentVersion(FreshDoc) + 1]
    /\ UNCHANGED <<profiles, profileReq, files, documentRows, versionRows,
                   auditLog, uploadReq, docLast, nSucceeded, nextId,
                   nDocRequests>>
    /\ UNCHANGED <<gateVars, clientVars, migVars, authVars>>

\* The content is persisted at the path of (documentId, nextVersion).
WriteVersionContent(c) ==
    /\ cvReq[c].pc = "write"
    /\ files' = files \cup {storagePath(FreshDoc, cvReq[c].next)}
    /\ cvReq' = [cvReq EXCEPT ![c].pc = "insert"]
    /\ UNCHANGED <<profiles, profileReq, documentRows, versionRows, auditLog,
                   uploadReq, docLast, nSucceeded, nextId, nDocRequests,
                   docLock>>
    /\ UNCHANGED <<gateVars, clientVars, migVars, authVars>>

\* INSERT INTO document_versions under UNIQUE (document_id, version).
InsertVersionRow(c) ==
    /\ cvReq[c].pc = "insert"
    /\ LET r == cvReq[c]
           conflict == \E v \in versionRows :
                           v.document_id = FreshDoc /\ v.version = r.next
       IN  IF ~conflict
           THEN /\ versionRows' = versionRows \cup
                       {[id |-> nextId, document_id |-> FreshDoc,
                         version |-> r.next,
                         file_path |-> storagePath(FreshDoc, r.next)]}
                /\ nextId' = nextId + 1
                /\ cvReq' = [cvReq EXCEPT ![c].pc = "pointer"]
                /\ UNCHANGED docLock
           ELSE /\ UNCHANGED <<versionRows, nextId>>
                /\ docLock' = IF docLock = c THEN 0 ELSE docLock
                /\ IF ~r.retried
                   THEN cvReq' = [cvReq EXCEPT ![c].pc = "begin",
                                               ![c].retried = TRUE]
                   ELSE cvReq' = [cvReq EXCEPT ![c].pc = "done",
                                               ![c].result = 409]
    /\ UNCHANGED <<profiles, profileReq, files, documentRows, auditLog,
                   uploadReq, docLast, nSucceeded, nDocRequests>>
    /\ UNCHANGED <<gateVars, clientVars, migVars, authVars>>

\* The pointer of the document moves to the new version; commit.
UpdateCurrentVersion(c) ==
    /\ cvReq[c].pc = "pointer"
    /\ documentRows' = {d \in documentRows : d.id # FreshDoc} \cup
           {[id |-> FreshDoc, current_version |-> cvReq[c].next,
             uploaded_by |-> 1]}
    /\ docLock' = IF docLock = c THEN 0 ELSE docLock
    /\ cvReq' = [cvReq EXCEPT ![c].pc = "done", ![c].result = cvReq[c].next]
    /\ UNCHANGED <<profiles, profileReq, files, versionRows, auditLog,
                   uploadReq, docLast, nSucceeded, nextId, nDocRequests>>
    /\ UNCHANGED <<gateVars, clientVars, migVars, authVars>>

VersionsNext ==
    \/ \E c \in Calls : ReceiveVersion(c)
    \/ \E c \in Calls : BeginVersion(c)
    \/ \E c \in Calls : WriteVersionContent(c)
    \/ \E c \in Calls : InsertVersionRow(c)
    \/ \E c \in Calls : UpdateCurrentVersion(c)

SpecVersions == AuditInit /\ [][VersionsNext]_vars

(***************************************************************************)
(* The frontend's calls.                                                   *)
(***************************************************************************)
ClientFrame ==
    /\ UNCHANGED clientEnv
    /\ UNCHANGED <<gateVars, authVars, docVars, migVars>>

\* A call starts: the request interceptor copies the token into the
\* Authorization header and the request leaves.  In mock mode login and
\* logout wait for the mock instead.
StartCall(fn, url) ==
    /\ nClientCalls < MaxClientCalls
    /\ nClientCalls' = nClientCalls + 1
    /\ creq' = [creq EXCEPT ![nClientCalls + 1] =
                  IF clientEnv.useMockAuth /\ fn \in {"login", "logout"}
                  THEN [NoCall EXCEPT !.fn = fn, !.pc = "mock"]
                  ELSE [NoCall EXCEPT !.fn = fn, !.url = url, !.pc = "sent",
                                      !.authorization = accessToken,
                                      !.nSent = 1]]
    /\ UNCHANGED <<accessToken, sinceLogout, navigating>>
    /\ ClientFrame

\* login(credentials): apiClient.post('/api/v1/auth/login', credentials)
ClientLogin == StartCall("login", LoginUrl)

\* logout(): apiClient.post('/api/v1/auth/logout')
ClientLogout == StartCall("logout", LogoutUrl)

\* Any other use of apiClient.
ClientRequest(url) == StartCall("request", url)

\* The promise of call `c` settles, resolved or rejected by the interceptor
\* chain that left the token at `token` and assigned window.location.href
\* when `redirected`; the continuation of login() or logout() runs.
Settle(c, rejected, token, redirected, why) ==
    LET r == creq[c]
        after == IF r.fn = "login" /\ ~rejected THEN LoginToken
                 ELSE IF r.fn = "logout" THEN logoutFinally(rejected, token)
                 ELSE token
    IN  /\ accessToken' = after
        /\ navigating' = (navigating \/ (clientEnv.hasWindow /\
                                           (redirected \/ r.fn = "logout")))
        /\ sinceLogout' = IF r.fn = "logout" THEN TRUE
                          ELSE IF r.fn = "login" /\ ~rejected THEN FALSE
                          ELSE sinceLogout
        /\ creq' = [creq EXCEPT ![c] =
                      [r EXCEPT !.pc = "settled",
                                !.outcome = IF rejected /\ r.fn # "logout"
                                            THEN "rejected" ELSE "resolved",
                                !.why = why, !.tokenAfter = after]]

\* The response to the request of call `c` arrives with `status`.
Response(c, status) ==
    /\ creq[c].pc = "sent"
    /\ LET r == creq[c]
       IN  IF status = 200
           THEN Settle(c, FALSE, accessToken, FALSE, "response")
           ELSE IF shouldRefresh(status, r.retry, r.url)
           THEN /\ creq' = [creq EXCEPT ![c].retry = TRUE,
                                        ![c].pc = "refreshing",
                                        ![c].nRefresh = count(r.nRefresh)]
                /\ UNCHANGED <<accessToken, sinceLogout, navigating>>
           ELSE Settle(c, TRUE, accessToken, FALSE, "response")
    /\ UNCHANGED nClientCalls
    /\ ClientFrame

\* The response to the refresh call of `c` arrives: on success the new
\* token is stored and the original request is sent again; on failure the
\* token is cleared, the page is redirected and the request is rejected.
RefreshResponse(c, ok) ==
    /\ creq[c].pc = "refreshing"
    /\ IF ok
       THEN /\ accessToken' = RefreshedToken
            /\ creq' = [creq EXCEPT ![c].pc = "sent",
                                    ![c].authorization = RefreshedToken,
                                    ![c].nSent = count(creq[c].nSent)]
            /\ UNCHANGED <<sinceLogout, navigating>>
       ELSE Settle(c, TRUE, NullToken, TRUE, "refresh failed")
    /\ UNCHANGED nClientCalls
    /\ ClientFrame

\* mockLogin resolves or throws, mockLogout resolves.
MockDone(c, ok) ==
    /\ creq[c].pc = "mock"
    /\ ok \/ creq[c].fn = "login"
    /\ Settle(c, ~ok, accessToken, FALSE, "mock")
    /\ UNCHANGED nClientCalls
    /\ ClientFrame

\* The navigation started by window.location.href = '/' unloads the page:
\* the module is evaluated anew and the requests in flight are dropped.
PageUnload ==
    /\ navigating
    /\ navigating' = FALSE
    /\ accessToken' = NullToken
    /\ creq' = [c \in ClientCalls |->
                  IF creq[c].pc \in {"idle", "settled"} THEN creq[c]
                  ELSE [creq[c] EXCEPT !.pc = "dropped"]]
    /\ UNCHANGED <<sinceLogout, nClientCalls>>
    /\ ClientFrame

ClientInit ==
    /\ ServerStart
    /\ MigStart
    /\ ClientIdle
    /\ clientEnv \in ClientEnvs

Arrivals(c) ==
    \/ \E status \in HttpStatuses : Response(c, status)
    \/ \E ok \in BOOLEAN : RefreshResponse(c, ok)
    \/ \E ok \in BOOLEAN : MockDone(c, ok)

ClientNext ==
    \/ ClientLogin
    \/ ClientLogout
    \/ \E url \in {DocumentsUrl, RefreshUrl} : ClientRequest(url)
    \/ \E c \in ClientCalls : Arrivals(c)
    \/ PageUnload

SpecClient == ClientInit /\ [][ClientNext]_vars

\* Every request sent is answered or fails, and a navigation completes.
SpecClientLive ==
    /\ SpecClient
    /\ \A c \in ClientCalls : WF_vars(Arrivals(c))
    /\ WF_vars(PageUnload)

(***************************************************************************)
(* migrate.sh up and down.  One run of the script at a time; every pass of *)
(* a loop is a step.  The database answers every statement.                *)
(***************************************************************************)
\* ls "$MIGRATIONS_DIR"
ls(dir) == LET present(f) == f \in dir IN SelectSeq(LsOrder, present)

\* grep "rollback", grep "${migration_name#*_}"
grep(lines, pattern) ==
    LET matches(f) == includes(f, pattern) IN SelectSeq(lines, matches)

\* grep -v "rollback"
grepNot(lines, pattern) ==
    LET differs(f) == ~includes(f, pattern) IN SelectSeq(lines, differs)

\* SELECT COALESCE(MAX(batch), 0) + 1 FROM _migrations
get_next_batch ==
    LET batches == {migTable[i].batch : i \in DOMAIN migTable} \cup {0}
    IN  (CHOOSE b \in batches : \A o \in batches : o <= b) + 1

\* SELECT COUNT(*) FROM _migrations WHERE migration_name = ... is above 0
is_migration_executed(name) ==
    \E i \in DOMAIN migTable : migTable[i].migration_name = name

\* INSERT INTO _migrations (migration_name, batch) VALUES (...)
record_migration(name, batch) ==
    Append(migTable, [migration_name |-> name, batch |-> batch])

\* DELETE FROM _migrations WHERE migration_name = ...
remove_migration_record(name) ==
    LET other(row) == row.migration_name # name
    IN  SelectSeq(migTable, other)

\* The sequence `seq` from its last element to its first.
Reverse(seq) == [i \in 1..Len(seq) |-> seq[Len(seq) + 1 - i]]

\* The rollback file migrate_down looks for: the first candidate if it is
\* a file, else the first line of the alternative listing; <<>> for none.
rollbackFileOf(name) ==
    IF firstCandidate(name) \in migFiles THEN firstCandidate(name)
    ELSE LET found == grep(grep(ls(migFiles), <<"rollback">>),
                           afterFirstUnderscore(name))
         IN  IF found = <<>> THEN <<>> ELSE Head(found)

\* The script exits with `status`: the run joins the history.
Exit(status, table, sql) ==
    /\ migHist' = Append(migHist,
                     [cmd |-> migRun.cmd, exit |-> status,
                      before |-> migRun.before, after |-> table,
                      sql |-> sql])
    /\ migRun' = NoRun

MigFrame ==
    /\ UNCHANGED <<migFiles, errexitArith>>
    /\ UNCHANGED <<gateVars, authVars, docVars, clientVars>>

\* migrate.sh up, to the head of the loop: the tracking table is ensured,
\* the batch number is read and the forward files are listed.
StartUp ==
    /\ migRun.cmd = "none"
    /\ nRuns < MaxRuns
    /\ nRuns' = nRuns + 1
    /\ migSql' = Append(migSql, TrackingTable)
    /\ migRun' = [NoRun EXCEPT
                    !.cmd = "up", !.pc = "loop", !.batch = get_next_batch,
                    !.todo = grepNot(ls(migFiles), <<"rollback">>),
                    !.before = migTable, !.sql = <<TrackingTable>>]
    /\ UNCHANGED <<migTable, migHist>>
    /\ MigFrame

\* One pass of the loop of migrate_up, or its end.
UpStep ==
    /\ migRun.cmd = "up"
    /\ migRun.pc = "loop"
    /\ IF migRun.todo = <<>>
       THEN /\ Exit(0, migTable, migRun.sql)
            /\ UNCHANGED <<migTable, migSql>>
       ELSE LET file == Head(migRun.todo)
                rest == [migRun EXCEPT !.todo = Tail(migRun.todo)]
            IN  IF file = TrackingTable \/ is_migration_executed(file)
                THEN /\ migRun' = rest
                     /\ UNCHANGED <<migTable, migSql, migHist>>
                ELSE /\ migSql' = Append(migSql, file)
                     /\ migTable' = record_migration(file, migRun.batch)
                     /\ IF errexitArith /\ migRun.executed_count = 0
                        THEN Exit(1, migTable', Append(migRun.sql, file))
                        ELSE /\ migRun' =
                                  [rest EXCEPT
                                     !.executed_count = @ + 1,
                                     !.sql = Append(migRun.sql, file)]
                             /\ UNCHANGED migHist
    /\ UNCHANGED nRuns
    /\ MigFrame

\* migrate.sh down, to the head of the loop: the last batch is read and
\* its migrations are listed by id, descending.
StartDown ==
    /\ migRun.cmd = "none"
    /\ nRuns < MaxRuns
    /\ nRuns' = nRuns + 1
    /\ LET last_batch == get_next_batch - 1
           inBatch(row) == row.batch = last_batch
           rows == SelectSeq(migTable, inBatch)
       IN  migRun' = [NoRun EXCEPT
                        !.cmd = "down", !.pc = "loop", !.batch = last_batch,
                        !.todo = Reverse([i \in 1..Len(rows) |->
                                             rows[i].migration_name]),
                        !.before = migTable]
    /\ UNCHANGED <<migTable, migSql, migHist>>
    /\ MigFrame

\* One pass of the loop of migrate_down, or its end.
DownStep ==
    /\ migRun.cmd = "down"
    /\ migRun.pc = "loop"
    /\ IF migRun.todo = <<>>
       THEN /\ Exit(0, migTable, migRun.sql)
            /\ UNCHANGED <<migTable, migSql>>
       ELSE LET name == Head(migRun.todo)
                rollback_file == rollbackFileOf(name)
                rest == [migRun EXCEPT !.todo = Tail(migRun.todo)]
            IN  IF rollback_file # <<>>
                THEN /\ migSql' = Append(migSql, rollback_file)
                     /\ migTable' = remove_migration_record(name)
                     /\ migRun' = [rest EXCEPT
                                     !.sql = Append(migRun.sql, rollback_file)]
                     /\ UNCHANGED migHist
                ELSE /\ migRun' = rest
                     /\ UNCHANGED <<migTable, migSql, migHist>>
    /\ UNCHANGED nRuns
    /\ MigFrame

MigInit ==
    /\ ServerStart
    /\ ClientStart
    /\ MigIdle
    /\ migFiles \in MigDirs
    /\ errexitArith \in BOOLEAN

MigNext ==
    \/ StartUp
    \/ UpStep
    \/ StartDown
    \/ DownStep

SpecMigrate == MigInit /\ [][MigNext]_vars

(***************************************************************************)
(* Vocabulary of the properties.                                           *)
(***************************************************************************)
\* The request answered last was a refresh, and it succeeded.
RefreshSucceeded == last.op = "refresh" /\ last.status = 200

\* The request answered last passed JwtAuthGuard.
Authenticated == last.op = "api" /\ last.status = 200

\* The permissions a token carries, by id.
Carried(token) == {q \in PermIds : PermName(q) \in token.permissions}

\* Time from the reading of a token's permissions to its signing.
SignDelay(token) == token.iat - signedFrom[token]

\* The part of a key before its first dot.
FirstDotPrefix(key) == key[1]

\* The matching rule: exact key, wildcard of the resource, global wildcard.
Grants(perms, key) ==
    \/ key \in perms
    \/ <<FirstDotPrefix(key), "*">> \in perms
    \/ <<"*">> \in perms

\* Everything an upload of document `id` leaves behind.
UploadRemains(id) ==
    \/ \E f \in files : f[2] = id
    \/ \E d \in documentRows : d.id = id
    \/ \E v \in versionRows : v.document_id = id
    \/ \E i \in 1..Len(auditLog) : auditLog[i].resource_id = id

\* Every createVersion call has returned.
AllVersionsDone == \A c \in Calls : cvReq[c].pc = "done"

\* The rows of document_versions of the fresh document.
FreshVersionRows == {v \in versionRows : v.document_id = FreshDoc}

(***************************************************************************)
(* C1.  Two concurrent refresh calls presenting the same refresh token     *)
(* never both succeed: a refresh that was in flight while another refresh  *)
(* succeeded with the same token fails.                                    *)
(***************************************************************************)
C1_ConcurrentRefreshOneWinner ==
    ~(RefreshSucceeded /\ last.reuse /\ ~last.afterUse)

(***************************************************************************)
(* C2.  A refresh token is single-use: a refresh call that presents a      *)
(* token some refresh has already succeeded with fails.                    *)
(***************************************************************************)
C2_RefreshTokenSingleUse ==
    ~(RefreshSucceeded /\ last.afterUse)

(***************************************************************************)
(* C3.  Every successful refresh sets the refreshToken cookie to a new     *)
(* refresh token, different from the presented one.                        *)
(***************************************************************************)
C3_RefreshRotatesCookie ==
    RefreshSucceeded =>
        /\ last.setCookie.kind = "set"
        /\ last.setCookie.value.typ = "refresh"
        /\ last.setCookie.value # last.tok

(***************************************************************************)
(* C4.  After a logout has completed for a session, every refresh call     *)
(* presenting that session's refresh token fails.                          *)
(***************************************************************************)
C4_LogoutRevokesSession ==
    ~(RefreshSucceeded /\ last.afterLogout)

C6_PermissionsOfActiveRoleOnly ==
    (last.op \in {"login", "refresh"} /\ last.status = 200) =>
        last.accessToken.permissions =
            IF last.user.role = NoRole \/ ~last.user.role.isActive
            THEN {}
            ELSE last.stored

C10_DeletePermittedIffRule ==
    deleteReq # NoDelete =>
        LET permitted ==
                \/ Grants(permissions, DocumentsDeleteAll)
                \/ /\ Grants(permissions, DocumentsDelete)
                   /\ uploaded_by(deleteReq.id) = deleteReq.caller
        IN  IF permitted
            THEN deleteReq.status = 200 /\ deleteReq.id \notin documents
            ELSE deleteReq.status = 403 /\ deleteReq.id \in documents

(***************************************************************************)
(* C11.  The audit table holds exactly one entry per successfully          *)
(* completed CREATE/UPDATE/DELETE/ACCESS operation, profile updates        *)
(* included; a request rejected by authentication or authorization adds    *)
(* none.                                                                   *)
(***************************************************************************)
C11_OneAuditEntryPerSuccess ==
    Len(auditLog) = nSucceeded

(***************************************************************************)
(* C12.  An upload and its audit record are one unit: an upload that       *)
(* failed at any step leaves no file, document row, version row or audit   *)
(* entry behind, and an upload answered with success left all of them.     *)
(***************************************************************************)
C12_UploadAllOrNothing ==
    (docLast.op = "upload" /\ docLast.documentId # 0) =>
        IF docLast.status = 201
        THEN /\ storagePath(docLast.documentId, 1) \in files
             /\ \E d \in documentRows : d.id = docLast.documentId
             /\ \E v \in versionRows : v.document_id = docLast.documentId
             /\ \E i \in 1..Len(auditLog) :
                    auditLog[i].resource_id = docLast.documentId
        ELSE ~UploadRemains(docLast.documentId)

(***************************************************************************)
(* C13.  N concurrent createVersion calls on the same fresh document       *)
(* produce the version numbers 1..N, each once and to one call, and the    *)
(* document points to version N once all have completed; no two version    *)
(* rows of the document ever carry the same number.                        *)
(***************************************************************************)
C13_VersionsDenseAndUnique ==
    /\ \A v, w \in FreshVersionRows : v.version = w.version => v = w
    /\ AllVersionsDone =>
           /\ {cvReq[c].result : c \in Calls} = 1..MaxCalls
           /\ {v.version : v \in FreshVersionRows} = 1..MaxCalls
           /\ Cardinality(FreshVersionRows) = MaxCalls
           /\ currentVersion(FreshDoc) = MaxCalls
           /\ \A n \in 1..MaxCalls : storagePath(FreshDoc, n) \in files

\* All calls have completed, each with a version number of its own.
C13_Witness ==
    /\ AllVersionsDone
    /\ currentVersion(FreshDoc) = MaxCalls
    /\ Cardinality({cvReq[c].result : c \in Calls}) = MaxCalls

(***************************************************************************)
(* C14.  A login with an existing email and a wrong password is answered   *)
(* 401 and leaves no trace: no access token and no refresh token is        *)
(* signed, no session id is drawn and no refreshToken cookie is set.       *)
(***************************************************************************)
C14_WrongPasswordNoTrace ==
    [][\A p \in Slots :
          (/\ req[p].op = "login"
           /\ req[p].user # NoUser
           /\ req[p].password = "wrong"
           /\ req'[p].op = "none")
          => /\ last'.op = "login"
             /\ last'.status = 401
             /\ last'.accessToken = NoToken
             /\ last'.setCookie = NoCookie
             /\ issued' = issued
             /\ nextSession' = nextSession]_vars

\* A login was refused for its password alone: the row it found passes
\* validateUser with the right password.
C14_Witness ==
    /\ last.op = "login"
    /\ last.status = 401
    /\ validateUser(last.user, "right")
    /\ last.setCookie = NoCookie

C16_RefreshFailuresUniform ==
    (last.op = "refresh" /\ last.status # 200) =>
        /\ last.status = 401
        /\ last.message = InvalidRefreshToken

(***************************************************************************)
(* C17.  POST /auth/refresh without a refreshToken cookie is answered 401  *)
(* and issues no access token.                                             *)
(***************************************************************************)
C17_RefreshWithoutCookieUnauthenticated ==
    (last.op = "refresh" /\ last.tok = NoToken) =>
        /\ last.status = 401
        /\ last.accessToken = NoToken

(***************************************************************************)
(* C18.  Every successful login sets the refreshToken cookie HttpOnly,     *)
(* Secure and SameSite=Strict, whatever NODE_ENV is.                       *)
(***************************************************************************)
C18_LoginCookieAttributes ==
    (last.op = "login" /\ last.status = 200) =>
        /\ last.setCookie.kind = "set"
        /\ last.setCookie.httpOnly
        /\ last.setCookie.secure
        /\ last.setCookie.sameSite = "strict"

(***************************************************************************)
(* C19.  A request that presents a refresh token as its Bearer credential  *)
(* on a protected endpoint is answered 401 and never reaches the handler.  *)
(***************************************************************************)
C19_RefreshTokenNotABearer ==
    (last.op = "api" /\ last.tok.typ = "refresh") =>
        /\ last.status = 401
        /\ last.reqUser = NoReqUser

C28_SidebarAgreesWithGuard ==
    (checked.done /\ checked.required # NoKey)
        => (checked.result <=> checked.guarded)

(***************************************************************************)
(* C25: a request bearing a correctly signed, unexpired access token whose *)
(* subject user no longer exists is answered 401, as for a non-active      *)
(* user.                                                                   *)
(***************************************************************************)
C25_DeletedSubjectUnauthenticated ==
    (/\ last.op = "api"
     /\ last.tok.typ = "access"
     /\ verify(last.tok, last.at)
     /\ last.user = NoUser)
        => last.status = 401


(***************************************************************************)
(* C27: refreshAccessToken accepts only tokens issued as refresh tokens:   *)
(* a refresh call that succeeds presented a refresh token in the cookie,   *)
(* so an access token in the cookie is answered 401.                       *)
(***************************************************************************)
C27_RefreshAcceptsRefreshTokensOnly ==
    RefreshSucceeded => last.tok.typ = "refresh"


(***************************************************************************)
(* C22: no two user records ever hold the same email, and an updateProfile *)
(* call that loses the race for an email fails with Conflict (409): the    *)
(* only answers are 200, 401, 404 and 409.                                 *)
(***************************************************************************)
C22_EmailRaceEndsInConflict ==
    /\ \A u, v \in DOMAIN profiles :
           u # v => profiles[u].email # profiles[v].email
    /\ docLast.op = "updateProfile" => docLast.status \in {200, 401, 404, 409}

(***************************************************************************)
(* C30: an updateProfile call that completes changes only the record of    *)
(* its user, only the fields present in its dto, and nothing when it       *)
(* fails.                                                                  *)
(***************************************************************************)
C30_UpdateProfileFrame ==
    [][\A p \in DocSlots :
          (profileReq[p].pc # "idle" /\ profileReq'[p].pc = "idle") =>
              LET r == profileReq[p]
                  old == profiles[r.userId]
                  new == profiles'[r.userId]
              IN  /\ \A u \in DOMAIN profiles \ {r.userId} :
                         profiles'[u] = profiles[u]
                  /\ docLast'.status # 200 => profiles' = profiles
                  /\ r.dto.firstName = {} => new.firstName = old.firstName
                  /\ r.dto.lastName = {} => new.lastName = old.lastName
                  /\ r.dto.email = {} => new.email = old.email]_vars


C26_LogoutAndFailedRefreshClearToken ==
    \A c \in ClientCalls :
        creq[c].pc = "settled" =>
            /\ creq[c].fn = "logout" =>
                  /\ creq[c].tokenAfter = NullToken
                  /\ ~isAuthenticated(creq[c].tokenAfter)
            /\ creq[c].why = "refresh failed" =>
                  creq[c].tokenAfter = NullToken

\* After a successful login a logout was answered 500 and settled.
C26_Witness ==
    \E c, d \in ClientCalls :
        /\ creq[c].fn = "login"
        /\ creq[c].pc = "settled"
        /\ creq[c].outcome = "resolved"
        /\ creq[d].fn = "logout"
        /\ creq[d].pc = "settled"
        /\ creq[d].nRefresh = 0
        /\ creq[d].authorization = LoginToken

(***************************************************************************)
(* C29: once logout() has completed the in-memory token stays null until   *)
(* the next successful login(), whatever the requests in flight at logout  *)
(* time do.                                                                *)
(***************************************************************************)
C29_TokenStaysNullAfterLogout ==
    sinceLogout => accessToken = NullToken

(***************************************************************************)
(* C23: a run of `up` executes every pending migration exactly once, in    *)
(* ascending file-name order, and records each under the batch number      *)
(* max batch + 1; an `up` that follows an `up` executes nothing and leaves *)
(* _migrations unchanged.                                                  *)
(***************************************************************************)
C23_UpRunsEveryPendingOnce ==
    \A i \in DOMAIN migHist :
        migHist[i].cmd = "up" =>
            LET h == migHist[i]
                recorded == {h.before[k].migration_name : k \in DOMAIN h.before}
                pending(f) == f \in Forward /\ f \in migFiles /\ f \notin recorded
                pend == SelectSeq(LsOrder, pending)
                migration(f) == f # TrackingTable
                ran == SelectSeq(h.sql, migration)
                batches == {h.before[k].batch : k \in DOMAIN h.before} \cup {0}
                b == (CHOOSE x \in batches : \A o \in batches : o <= x) + 1
            IN  /\ ran = pend
                /\ h.after = h.before \o
                       [k \in 1..Len(pend) |->
                           [migration_name |-> pend[k], batch |-> b]]
                /\ (i > 1 /\ migHist[i - 1].cmd = "up") =>
                       (ran = <<>> /\ h.after = h.before)

(***************************************************************************)
(* C24: a run of `down` rolls back exactly the migrations of the highest   *)
(* batch, last executed first, running for each its rollback file          *)
(* YYYYMMDD_NNN_rollback_description.sql and removing its record, so that  *)
(* `up` followed by `down` restores the records there were before.         *)
(***************************************************************************)
C24_DownRollsBackLastBatch ==
    \A i \in DOMAIN migHist :
        migHist[i].cmd = "down" =>
            LET h == migHist[i]
                batches == {h.before[k].batch : k \in DOMAIN h.before} \cup {0}
                last_batch == CHOOSE x \in batches : \A o \in batches : o <= x
                kept(row) == row.batch # last_batch
                gone(row) == row.batch = last_batch
                rows == SelectSeq(h.before, gone)
            IN  /\ h.after = SelectSeq(h.before, kept)
                /\ Len(h.sql) = Len(rows)
                /\ \A k \in 1..Len(h.sql) :
                      LET name == rows[Len(rows) + 1 - k].migration_name
                      IN  h.sql[k] \in {rollbackByExample(name),
                                        rollbackByPattern(name)}
                /\ (i > 1 /\ migHist[i - 1].cmd = "up") =>
                       h.after = migHist[i - 1].before


====
